---------------------------- MODULE Spec2Model ----------------------------
(***************************************************************************)
(* Model of ffmpeg-loudnorm-helper (src/src/main.rs): one run of main,     *)
(* from the parsed command line to process exit, with the ffmpeg child     *)
(* process as the environment.  Text is modelled character by character:   *)
(* a Rust String is a TLA+ string, indexed from 1.                         *)
(***************************************************************************)
EXTENDS Integers, Sequences, FiniteSets, TLC

(***************************************************************************)
(* Bounds of the model.                                                    *)
(***************************************************************************)
\* number of free-form log lines ffmpeg writes before its JSON report
MaxLogLines == 1

(***************************************************************************)
(* Exit statuses of the process.                                           *)
(***************************************************************************)
\* main returns normally
ExitSuccess == 0
\* clap's get_matches exits with a usage error
ExitUsage == 2
\* a Rust panic (unwrap/expect on an Err) ends the process with 101
ExitPanic == 101
\* exit_status is <<>> while the process runs and <<status>> once it ended

(***************************************************************************)
(* Character-level helpers on strings.                                     *)
(***************************************************************************)
Char(s, i) == SubSeq(s, i, i)

Whitespace == {" ", "\n", "\t", "\r"}

Digits == {"0", "1", "2", "3", "4", "5", "6", "7", "8", "9"}

\* the positions of s that hold ch
Positions(s, ch) == {i \in 1..Len(s) : Char(s, i) = ch}

\* str::rfind(ch): the last position holding ch; 0 stands for None
rfind(s, ch) ==
    LET P == Positions(s, ch) IN
    IF P = {} THEN 0 ELSE CHOOSE i \in P : \A j \in P : j <= i

\* str::find(ch): the first position holding ch; 0 stands for None
find(s, ch) ==
    LET P == Positions(s, ch) IN
    IF P = {} THEN 0 ELSE CHOOSE i \in P : \A j \in P : i <= j

\* first position >= i holding ch; 0 when there is none
RECURSIVE ScanTo(_, _, _)
ScanTo(s, i, ch) ==
    IF i > Len(s) THEN 0
    ELSE IF Char(s, i) = ch THEN i
    ELSE ScanTo(s, i + 1, ch)

\* first position >= i that holds no whitespace (Len(s) + 1 at end of input)
RECURSIVE SkipWs(_, _)
SkipWs(s, i) ==
    IF i > Len(s) THEN i
    ELSE IF Char(s, i) \in Whitespace THEN SkipWs(s, i + 1)
    ELSE i

\* last position of the run of number characters that starts at i
RECURSIVE NumEnd(_, _)
NumEnd(s, i) ==
    IF i + 1 > Len(s) THEN i
    ELSE IF Char(s, i + 1) \in Digits \cup {".", "-", "+", "e", "E"}
         THEN NumEnd(s, i + 1)
    ELSE i

\* does sub occur in s at position i
OccursAt(s, sub, i) == SubSeq(s, i, i + Len(sub) - 1) = sub

Contains(s, sub) == \E i \in 1..(Len(s) - Len(sub) + 1) : OccursAt(s, sub, i)

StartsWith(s, sub) == Len(sub) <= Len(s) /\ OccursAt(s, sub, 1)

EndsWith(s, sub) ==
    Len(sub) <= Len(s) /\ OccursAt(s, sub, Len(s) - Len(sub) + 1)

(***************************************************************************)
(* struct Loudness and its derived Deserialize, as serde_json::from_str    *)
(* runs it on a slice: five required String fields, unknown fields         *)
(* ignored, duplicates rejected, only whitespace allowed after the object. *)
(* Option<Loudness> is <<>> for None and <<l>> for Some(l).                *)
(***************************************************************************)
LoudnessFields ==
    <<"input_i", "input_tp", "input_lra", "input_thresh", "target_offset">>

FieldNames == {LoudnessFields[n] : n \in 1..Len(LoudnessFields)}

NoFields == [k \in FieldNames |-> <<>>]

ParseErr(e) == [ok |-> FALSE, val |-> <<>>, err |-> e]

ParseOk(l) == [ok |-> TRUE, val |-> <<l>>, err |-> ""]

\* FinishStruct with every field defaulted, as #[serde(default)] would do
FinishStructLenient(s, acc, next) ==
    IF SkipWs(s, next) <= Len(s) THEN ParseErr("trailing characters")
    ELSE ParseOk([k \in FieldNames |-> IF acc[k] = <<>> THEN "" ELSE acc[k][1]])

\* end of the map visitor, then Deserializer::end: every field must be set,
\* and nothing but whitespace may follow the closing brace
FinishStruct(s, acc, next) ==
    IF \E k \in FieldNames : acc[k] = <<>> THEN ParseErr("missing field")
    ELSE IF SkipWs(s, next) <= Len(s) THEN ParseErr("trailing characters")
    ELSE ParseOk([k \in FieldNames |-> acc[k][1]])

\* a value whose first character is first, met under key: deserializing a
\* String accepts only a JSON string, an ignored field accepts any value
AcceptsAnyValue(key, first) == TRUE

AcceptsValue(key, first) == key \notin FieldNames \/ first = "\""

\* one "key": value member starting at j, then the rest of the object
RECURSIVE ParseMember(_, _, _)
ParseMember(s, j, acc) ==
    IF j > Len(s) THEN ParseErr("EOF while parsing an object")
    ELSE IF Char(s, j) # "\"" THEN ParseErr("key must be a string")
    ELSE
      LET kEnd == ScanTo(s, j + 1, "\"") IN
      IF kEnd = 0 THEN ParseErr("EOF while parsing a string")
      ELSE
        LET key == SubSeq(s, j + 1, kEnd - 1)
            c   == SkipWs(s, kEnd + 1)
        IN
        IF c > Len(s) THEN ParseErr("EOF while parsing an object")
        ELSE IF Char(s, c) # ":" THEN ParseErr("expected colon")
        ELSE IF key \in FieldNames /\ acc[key] # <<>>
             THEN ParseErr("duplicate field")
        ELSE
          LET v == SkipWs(s, c + 1) IN
          IF v > Len(s) THEN ParseErr("EOF while parsing a value")
          ELSE IF Char(s, v) \notin Digits \cup {"-", "\""}
               THEN ParseErr("expected value")
          ELSE IF ~AcceptsValue(key, Char(s, v))
               THEN ParseErr("invalid type: expected a string")
          ELSE
            LET isStr == Char(s, v) = "\""
                vEnd  == IF isStr THEN ScanTo(s, v + 1, "\"") ELSE NumEnd(s, v)
            IN
            IF vEnd = 0 THEN ParseErr("EOF while parsing a string")
            ELSE
              LET acc2 == IF key \in FieldNames
                          THEN [acc EXCEPT ![key] = <<SubSeq(s, v + 1, vEnd - 1)>>]
                          ELSE acc
                  n    == SkipWs(s, vEnd + 1)
              IN
              IF n > Len(s) THEN ParseErr("EOF while parsing an object")
              ELSE IF Char(s, n) = "," THEN ParseMember(s, SkipWs(s, n + 1), acc2)
              ELSE IF Char(s, n) = "}" THEN FinishStruct(s, acc2, n + 1)
              ELSE ParseErr("expected comma or closing brace")

\* serde_json::from_str::<Loudness>(s)
from_str(s) ==
    LET i == SkipWs(s, 1) IN
    IF i > Len(s) THEN ParseErr("EOF while parsing a value")
    ELSE IF Char(s, i) # "{" THEN ParseErr("invalid type: expected struct Loudness")
    ELSE
      LET j == SkipWs(s, i + 1) IN
      IF j <= Len(s) /\ Char(s, j) = "}" THEN FinishStruct(s, NoFields, j + 1)
      ELSE ParseMember(s, j, NoFields)

(***************************************************************************)
(* Result<T, E>: ok says which arm; val holds the Ok value, err the Err.   *)
(***************************************************************************)
Ok(v) == [ok |-> TRUE, val |-> v, err |-> ""]

Err(e) == [ok |-> FALSE, val |-> "", err |-> e]

\* impl fmt::Display for CliError
Display(e) ==
    IF e = "MissingInput" THEN "Input path is required."
    ELSE IF e = "ProcessFailed" THEN "FFmpeg process failed."
    ELSE "Missing argument: " \o e

(***************************************************************************)
(* The command line.  An Option<String> is <<>> or <<s>>.                  *)
(***************************************************************************)
InputPaths == {<<>>, <<"in.wav">>}

IntegratedArgs == {<<>>, <<"-23.0">>, <<"abc">>}

RangeArgs == {<<>>, <<"11.0">>}

PeakArgs == {<<>>, <<"-1.5">>}

CommandLines ==
    [input : InputPaths, integrated_loudness : IntegratedArgs,
     loudness_range : RangeArgs, true_peak : PeakArgs,
     down_mix : BOOLEAN, resample : BOOLEAN]

\* Arg::default_value
WithDefault(opt, default) == IF opt = <<>> THEN <<default>> ELSE opt

\* the ArgMatches clap hands back when the required positional is present
setup_cli(cmd) ==
    [input               |-> cmd.input,
     integrated_loudness |-> WithDefault(cmd.integrated_loudness, "-24.0"),
     loudness_range      |-> WithDefault(cmd.loudness_range, "7.0"),
     true_peak           |-> WithDefault(cmd.true_peak, "-2.0"),
     down_mix            |-> cmd.down_mix,
     resample            |-> cmd.resample]

\* CliConfig::from_matches: the strings are cloned as given, unparsed
from_matches(m) ==
    IF m.input = <<>> THEN Err("MissingInput")
    ELSE IF m.integrated_loudness = <<>> THEN Err("integrated loudness")
    ELSE IF m.loudness_range = <<>> THEN Err("loudness range")
    ELSE IF m.true_peak = <<>> THEN Err("true peak")
    ELSE Ok([input_path          |-> m.input[1],
             integrated_loudness |-> m.integrated_loudness[1],
             loudness_range      |-> m.loudness_range[1],
             true_peak           |-> m.true_peak[1],
             down_mix            |-> m.down_mix,
             resample            |-> m.resample])

(***************************************************************************)
(* FilterSettings::construct                                               *)
(***************************************************************************)
DownMixPrefix ==
    "aformat=sample_fmts=s16:sample_rates=48000:channel_layouts=stereo,"

ResampleSuffix ==
    ",aresample=osr=48000,aresample=resampler=soxr:precision=28"

\* ConstructCorrection with measured_TP and measured_LRA filled crosswise
ConstructCorrectionSwapped(c, l) ==
    (IF c.down_mix THEN DownMixPrefix ELSE "")
    \o "loudnorm=linear=true:I=" \o c.integrated_loudness
    \o ":LRA=" \o c.loudness_range
    \o ":TP=" \o c.true_peak
    \o ":measured_I=" \o l.input_i
    \o ":measured_TP=" \o l.input_lra
    \o ":measured_LRA=" \o l.input_tp
    \o ":measured_thresh=" \o l.input_thresh
    \o ":offset=" \o l.target_offset
    \o (IF c.resample THEN ResampleSuffix ELSE "")

\* ConstructCorrection with the default integrated loudness in place of
\* the configured one
ConstructCorrectionDefaultI(c, l) ==
    (IF c.down_mix THEN DownMixPrefix ELSE "")
    \o "loudnorm=linear=true:I=-24.0"
    \o ":LRA=" \o c.loudness_range
    \o ":TP=" \o c.true_peak
    \o ":measured_I=" \o l.input_i
    \o ":measured_TP=" \o l.input_tp
    \o ":measured_LRA=" \o l.input_lra
    \o ":measured_thresh=" \o l.input_thresh
    \o ":offset=" \o l.target_offset
    \o (IF c.resample THEN ResampleSuffix ELSE "")

\* the Some(l) arm
ConstructCorrection(c, l) ==
    (IF c.down_mix THEN DownMixPrefix ELSE "")
    \o "loudnorm=linear=true:I=" \o c.integrated_loudness
    \o ":LRA=" \o c.loudness_range
    \o ":TP=" \o c.true_peak
    \o ":measured_I=" \o l.input_i
    \o ":measured_TP=" \o l.input_tp
    \o ":measured_LRA=" \o l.input_lra
    \o ":measured_thresh=" \o l.input_thresh
    \o ":offset=" \o l.target_offset
    \o (IF c.resample THEN ResampleSuffix ELSE "")

\* ConstructMeasurement with the resample stage appended, as the Some arm does
ConstructMeasurementResampled(c) ==
    (IF c.down_mix THEN DownMixPrefix ELSE "")
    \o "loudnorm=I=" \o c.integrated_loudness
    \o ":LRA=" \o c.loudness_range
    \o ":tp=" \o c.true_peak
    \o ":print_format=json"
    \o (IF c.resample THEN ResampleSuffix ELSE "")

\* the None arm
ConstructMeasurement(c) ==
    (IF c.down_mix THEN DownMixPrefix ELSE "")
    \o "loudnorm=I=" \o c.integrated_loudness
    \o ":LRA=" \o c.loudness_range
    \o ":tp=" \o c.true_peak
    \o ":print_format=json"

construct(c, loudness) ==
    IF loudness # <<>> THEN ConstructCorrection(c, loudness[1])
    ELSE ConstructMeasurement(c)

(***************************************************************************)
(* LoudnessAnalyzer                                                        *)
(***************************************************************************)
\* the argument vector handed to ProcessCommand::new("ffmpeg")
FfmpegArgs(input_path, filter_settings) ==
    <<"-i", input_path, "-hide_banner", "-vn", "-af", filter_settings,
      "-f", "null", "-">>

\* "~" stands for a byte that is not valid UTF-8, "?" for U+FFFD
RECURSIVE from_utf8_lossy(_)
from_utf8_lossy(bytes) ==
    LET i == find(bytes, "~") IN
    IF i = 0 THEN bytes
    ELSE SubSeq(bytes, 1, i - 1) \o "?"
         \o from_utf8_lossy(SubSeq(bytes, i + 1, Len(bytes)))

\* WaitResult without the test of output.status.success()
WaitResultAnyStatus(status, stderr_bytes) == Ok(from_utf8_lossy(stderr_bytes))

\* the value analyze_loudness returns once the child has been waited for
WaitResult(status, stderr_bytes) ==
    IF status = 0 THEN Ok(from_utf8_lossy(stderr_bytes))
    ELSE Err("ProcessFailed")

\* Result::unwrap_or_default in place of unwrap
unwrap_or_default(r) ==
    [panic |-> FALSE,
     val   |-> IF r.ok THEN r.val ELSE <<[k \in FieldNames |-> ""]>>]

\* Result::unwrap on the parse result: the value, or a panic
unwrap(r) == [panic |-> ~r.ok, val |-> r.val]

extract_json(output) ==
    LET start == rfind(output, "{") IN
    IF start = 0 THEN "" ELSE SubSeq(output, start, Len(output))

(***************************************************************************)
(* The environment: what the ffmpeg child writes to its stderr.  A report  *)
(* is described by its shape, the measurement it carries and the text      *)
(* around it; Diagnostic renders the bytes.                                *)
(***************************************************************************)
Measurements ==
    { [input_i |-> "-23.5", input_tp |-> "-1.0", input_lra |-> "5.0",
       input_thresh |-> "-34.0", target_offset |-> "0.5"],
      [input_i |-> "-27.61", input_tp |-> "-4.47", input_lra |-> "18.06",
       input_thresh |-> "-39.20", target_offset |-> "0.58"] }

LogLines == {"Input #0, wav, title: caf~\n", "[loudnorm @ {0x55}] eof\n"}

\* every text of at most n log lines
RECURSIVE LogTexts(_)
LogTexts(n) ==
    IF n = 0 THEN {""}
    ELSE LET S == LogTexts(n - 1) IN S \cup {l \o t : l \in LogLines, t \in S}

\* what may follow the report: nothing, a newline, one more log line
Trailers == {"", "\n", "\nsize=N/A time=00:00:01\n"}

\* "full": the five fields; "ffmpeg": the ten fields loudnorm prints;
\* "missing"/"mistyped": one of BrokenFields absent / an unquoted number;
\* "truncated": the five fields cut short; "none": no report at all
BrokenFields == {"input_i", "input_lra", "target_offset"}

Shapes ==
    {[kind |-> "full", field |-> ""], [kind |-> "ffmpeg", field |-> ""],
     [kind |-> "truncated", field |-> ""], [kind |-> "none", field |-> ""]}
    \cup [kind : {"missing", "mistyped"}, field : BrokenFields]

Reports ==
    [shape : Shapes, m : Measurements, log : LogTexts(MaxLogLines),
     trailer : Trailers]

NoReport ==
    [shape |-> [kind |-> "none", field |-> ""],
     m |-> CHOOSE m \in Measurements : TRUE, log |-> "", trailer |-> ""]

Quoted(s) == "\"" \o s \o "\""

RECURSIVE Join(_, _)
Join(parts, sep) ==
    IF parts = <<>> THEN ""
    ELSE IF Len(parts) = 1 THEN parts[1]
    ELSE parts[1] \o sep \o Join(Tail(parts), sep)

\* the members of the compact object for shape sh
Members(sh, m) ==
    LET One(k) ==
          IF sh.kind = "missing" /\ sh.field = k THEN <<>>
          ELSE IF sh.kind = "mistyped" /\ sh.field = k
               THEN <<Quoted(k) \o ":" \o m[k]>>
          ELSE <<Quoted(k) \o ":" \o Quoted(m[k])>>
    IN One("input_i") \o One("input_tp") \o One("input_lra")
       \o One("input_thresh") \o One("target_offset")

\* the ten members loudnorm prints, one per line
FfmpegMembers(m) ==
    LET P(k, v) == "\t" \o Quoted(k) \o " : " \o Quoted(v) IN
    << P("input_i", m.input_i), P("input_tp", m.input_tp),
       P("input_lra", m.input_lra), P("input_thresh", m.input_thresh),
       P("output_i", "-24.05"), P("output_tp", "-2.00"),
       P("output_lra", "6.90"), P("output_thresh", "-34.55"),
       P("normalization_type", "dynamic"),
       P("target_offset", m.target_offset) >>

Body(sh, m) ==
    IF sh.kind = "none" THEN ""
    ELSE IF sh.kind = "ffmpeg"
         THEN "{\n" \o Join(FfmpegMembers(m), ",\n") \o "\n}"
    ELSE LET obj == "{" \o Join(Members(sh, m), ",") \o "}" IN
         IF sh.kind = "truncated" THEN SubSeq(obj, 1, Len(obj) - 2) ELSE obj

Diagnostic(r) == r.log \o Body(r.shape, r.m) \o r.trailer

ExitStatuses == {0, 1}

(***************************************************************************)
(* State.                                                                  *)
(***************************************************************************)
VARIABLES
    pc,              \* position in main
    cmd,             \* the command line as given
    matches,         \* <<>> or <<ArgMatches>>
    config,          \* <<>> or <<CliConfig>>
    filter_settings, \* the measurement-mode filter string of line 197
    child,           \* the ffmpeg process
    analysis,        \* <<>> or <<Result>>: what analyze_loudness returned
    parsed,          \* <<>> or <<Result>>: what serde_json::from_str returned
    loudness,        \* <<>> or <<Loudness>>
    correction,      \* the correction-mode filter string of line 203
    stdout,          \* text written to standard output
    stderr,          \* text written to standard error
    exit_status,     \* <<>>, or <<s>> once the process ended with status s
    steps,           \* history: the steps taken, in order
    report           \* history: the report the child chose to write

vars ==
    <<pc, cmd, matches, config, filter_settings, child, analysis, parsed,
      loudness, correction, stdout, stderr, exit_status, steps, report>>

NoChild == [state |-> "none", args |-> <<>>, stderr |-> "", status |-> 0]

Init ==
    /\ pc = "setup_cli"
    /\ cmd \in CommandLines
    /\ matches = <<>>
    /\ config = <<>>
    /\ filter_settings = ""
    /\ child = NoChild
    /\ analysis = <<>>
    /\ parsed = <<>>
    /\ loudness = <<>>
    /\ correction = ""
    /\ stdout = ""
    /\ stderr = ""
    /\ exit_status = <<>>
    /\ steps = <<>>
    /\ report = NoReport

\* a panic: the message goes to standard error, the process ends with 101
Panic(msg) ==
    /\ stderr' = stderr \o "thread 'main' panicked: " \o msg \o "\n"
    /\ exit_status' = <<ExitPanic>>
    /\ pc' = "done"

(***************************************************************************)
(* main, statement by statement.                                           *)
(***************************************************************************)
\* line 195: clap ends the process itself when the positional is missing
SetupCli ==
    /\ pc = "setup_cli"
    /\ IF cmd.input = <<>>
       THEN /\ stderr' = stderr \o "error: the following required arguments "
                                \o "were not provided: <input>\n"
            /\ exit_status' = <<ExitUsage>>
            /\ pc' = "done"
            /\ UNCHANGED matches
       ELSE /\ matches' = <<setup_cli(cmd)>>
            /\ pc' = "from_matches"
            /\ UNCHANGED <<stderr, exit_status>>
    /\ UNCHANGED <<cmd, config, filter_settings, child, analysis, parsed,
                   loudness, correction, stdout, steps, report>>

\* line 196
FromMatches ==
    /\ pc = "from_matches"
    /\ LET r == from_matches(matches[1]) IN
       IF r.ok
       THEN /\ config' = <<r.val>>
            /\ pc' = "construct"
            /\ steps' = Append(steps, "resolve")
            /\ UNCHANGED <<stderr, exit_status>>
       ELSE /\ Panic("Error parsing command line arguments: " \o r.err)
            /\ UNCHANGED <<config, steps>>
    /\ UNCHANGED <<cmd, matches, filter_settings, child, analysis, parsed,
                   loudness, correction, stdout, report>>

\* line 197
BuildMeasurement ==
    /\ pc = "construct"
    /\ filter_settings' = construct(config[1], <<>>)
    /\ steps' = Append(steps, "build_measurement")
    /\ pc' = "spawn"
    /\ UNCHANGED <<cmd, matches, config, child, analysis, parsed, loudness,
                   correction, stdout, stderr, exit_status, report>>

\* lines 54-68: the child starts
SpawnOk ==
    /\ pc = "spawn"
    /\ child' = [NoChild EXCEPT !.state = "running",
                   !.args = FfmpegArgs(config[1].input_path, filter_settings)]
    /\ steps' = Append(steps, "invoke")
    /\ pc' = "wait"
    /\ UNCHANGED <<cmd, matches, config, filter_settings, analysis, parsed,
                   loudness, correction, stdout, stderr, exit_status, report>>

\* lines 54-68: spawn fails (no ffmpeg on the path)
SpawnFail ==
    /\ pc = "spawn"
    /\ analysis' = <<Err("ProcessFailed")>>
    /\ steps' = Append(steps, "invoke")
    /\ pc' = "match"
    /\ UNCHANGED <<cmd, matches, config, filter_settings, child, parsed,
                   loudness, correction, stdout, stderr, exit_status, report>>

\* the child writes its diagnostics and exits
FfmpegExit ==
    /\ child.state = "running"
    /\ \E r \in Reports, st \in ExitStatuses :
         /\ child' = [child EXCEPT !.state = "exited", !.stderr = Diagnostic(r),
                                   !.status = st]
         /\ report' = r
    /\ UNCHANGED <<pc, cmd, matches, config, filter_settings, analysis, parsed,
                   loudness, correction, stdout, stderr, exit_status, steps>>

\* lines 70-78: wait_with_output returns
WaitOk ==
    /\ pc = "wait"
    /\ child.state = "exited"
    /\ analysis' = <<WaitResult(child.status, child.stderr)>>
    /\ pc' = "match"
    /\ UNCHANGED <<cmd, matches, config, filter_settings, child, parsed,
                   loudness, correction, stdout, stderr, exit_status, steps,
                   report>>

\* lines 70-72: wait_with_output fails with an I/O error
WaitFail ==
    /\ pc = "wait"
    /\ child.state = "exited"
    /\ analysis' = <<Err("ProcessFailed")>>
    /\ pc' = "match"
    /\ UNCHANGED <<cmd, matches, config, filter_settings, child, parsed,
                   loudness, correction, stdout, stderr, exit_status, steps,
                   report>>

\* lines 200-202: the Ok arm extracts, parses and unwraps
Extract ==
    /\ pc = "match"
    /\ analysis[1].ok
    /\ LET r == from_str(extract_json(analysis[1].val)) IN
       /\ parsed' = <<r>>
       /\ steps' = Append(steps, "extract")
       /\ IF ~unwrap(r).panic
          THEN /\ loudness' = unwrap(r).val
               /\ pc' = "construct_correction"
               /\ UNCHANGED <<stderr, exit_status>>
          ELSE /\ Panic("called Result::unwrap() on an Err value: " \o r.err)
               /\ UNCHANGED loudness
    /\ UNCHANGED <<cmd, matches, config, filter_settings, child, analysis,
                   correction, stdout, report>>

\* line 203, the argument of println!
BuildCorrection ==
    /\ pc = "construct_correction"
    /\ correction' = construct(config[1], loudness)
    /\ steps' = Append(steps, "build_correction")
    /\ pc' = "println"
    /\ UNCHANGED <<cmd, matches, config, filter_settings, child, analysis,
                   parsed, loudness, stdout, stderr, exit_status, report>>

\* line 203
Println ==
    /\ pc = "println"
    /\ stdout' = stdout \o correction \o "\n"
    /\ steps' = Append(steps, "print")
    /\ pc' = "return"
    /\ UNCHANGED <<cmd, matches, config, filter_settings, child, analysis,
                   parsed, loudness, correction, stderr, exit_status, report>>

\* line 205: the Err arm
ReportError ==
    /\ pc = "match"
    /\ ~analysis[1].ok
    /\ stderr' = stderr \o Display(analysis[1].err) \o "\n"
    /\ pc' = "return"
    /\ UNCHANGED <<cmd, matches, config, filter_settings, child, analysis,
                   parsed, loudness, correction, stdout, exit_status, steps,
                   report>>

\* line 207: main returns
Return ==
    /\ pc = "return"
    /\ exit_status' = <<ExitSuccess>>
    /\ pc' = "done"
    /\ UNCHANGED <<cmd, matches, config, filter_settings, child, analysis,
                   parsed, loudness, correction, stdout, stderr, steps, report>>

Next ==
    \/ SetupCli
    \/ FromMatches
    \/ BuildMeasurement
    \/ SpawnOk
    \/ SpawnFail
    \/ FfmpegExit
    \/ WaitOk
    \/ WaitFail
    \/ Extract
    \/ BuildCorrection
    \/ Println
    \/ ReportError
    \/ Return

Spec == Init /\ [][Next]_vars

(***************************************************************************)
(* Vocabulary of the properties.                                           *)
(***************************************************************************)
\* the process has ended
Ended == pc = "done"

\* analyze_loudness returned Err
AnalysisFailed == analysis # <<>> /\ ~analysis[1].ok

\* the extraction step ran (line 202 was reached)
Extracted == parsed # <<>>

\* a filter string, whole, was printed
Printed == stdout # ""

\* the diagnostic text main received holds no opening brace
NoBrace == analysis # <<>> /\ analysis[1].ok /\ ~Contains(analysis[1].val, "{")

\* the text holds a brace, but what the child wrote is cut short or is not
\* the five-field object
InvalidReport ==
    /\ analysis # <<>> /\ analysis[1].ok /\ Contains(analysis[1].val, "{")
    /\ report.shape.kind \in {"truncated", "missing", "mistyped", "none"}

\* decimal text: an optional sign, digits, at most one point
IsFloatText(s) ==
    /\ \E i \in 1..Len(s) : Char(s, i) \in Digits
    /\ \A i \in 1..Len(s) :
         \/ Char(s, i) \in Digits
         \/ Char(s, i) = "." /\ Cardinality(Positions(s, ".")) = 1
         \/ Char(s, i) \in {"-", "+"} /\ i = 1

\* the three targets as given on the command line, defaults applied
TargetsOf(c) ==
    << WithDefault(c.integrated_loudness, "-24.0")[1],
       WithDefault(c.loudness_range, "7.0")[1],
       WithDefault(c.true_peak, "-2.0")[1] >>

\* the formats as the specification words them
SpecMeasurement(d, i, l, t, tpKey) ==
    (IF d THEN "aformat=sample_fmts=s16:sample_rates=48000:channel_layouts=stereo,"
     ELSE "")
    \o "loudnorm=" \o Join(<<"I=" \o i, "LRA=" \o l, tpKey \o "=" \o t,
                             "print_format=json">>, ":")

SpecCorrectionHead(d, i, l, t) ==
    (IF d THEN "aformat=sample_fmts=s16:sample_rates=48000:channel_layouts=stereo,"
     ELSE "")
    \o "loudnorm=" \o Join(<<"linear=true", "I=" \o i, "LRA=" \o l, "TP=" \o t>>, ":")

SpecMeasured(m) ==
    ":" \o Join(<<"measured_I=" \o m.input_i, "measured_TP=" \o m.input_tp,
                  "measured_LRA=" \o m.input_lra,
                  "measured_thresh=" \o m.input_thresh,
                  "offset=" \o m.target_offset>>, ":")

SpecResample(r) ==
    IF r THEN ",aresample=osr=48000,aresample=resampler=soxr:precision=28"
    ELSE ""

SpecExample ==
    "loudnorm=linear=true:I=-23.0:LRA=7.0:TP=-2.0:measured_I=-23.5:"
    \o "measured_TP=-1.0:measured_LRA=5.0:measured_thresh=-34.0:offset=0.5"

SpecExampleMeasurement ==
    [input_i |-> "-23.5", input_tp |-> "-1.0", input_lra |-> "5.0",
     input_thresh |-> "-34.0", target_offset |-> "0.5"]

StepOrder ==
    <<"resolve", "build_measurement", "invoke", "extract", "build_correction",
      "print">>

Count(seq, e) == Cardinality({n \in 1..Len(seq) : seq[n] = e})

(***************************************************************************)
(* C1: when the analysis step fails (spawn failure, non-zero exit) or the  *)
(* measurement cannot be extracted, nothing is written to standard output; *)
(* whatever is printed is the whole correction filter string, and it is    *)
(* printed only after a child that exited with status zero and a           *)
(* successful parse.                                                       *)
(***************************************************************************)
C1_NoFilterOnFailure ==
    /\ AnalysisFailed => stdout = ""
    /\ (Extracted /\ ~parsed[1].ok) => stdout = ""
    /\ Printed =>
         /\ child.state = "exited" /\ child.status = 0
         /\ Extracted /\ parsed[1].ok
         /\ stdout = correction \o "\n"
         /\ StartsWith(correction, SpecCorrectionHead(config[1].down_mix,
                config[1].integrated_loudness, config[1].loudness_range,
                config[1].true_peak))

C1_Witness ==
    /\ Ended /\ Extracted /\ ~parsed[1].ok /\ stdout = ""
    /\ child.status = 0

(***************************************************************************)
(* C2: the exit status is 0 only when the filter string was printed; on a  *)
(* configuration, subprocess or parse error an error message is printed    *)
(* and the exit status is non-zero.                                        *)
(***************************************************************************)
C2_ExitStatusTellsSuccess ==
    Ended =>
      /\ exit_status = <<0>> => Printed
      /\ (AnalysisFailed \/ cmd.input = <<>> \/ (Extracted /\ ~parsed[1].ok)) =>
           (stderr # "" /\ exit_status # <<0>>)

(***************************************************************************)
(* C3: the correction-mode string is the downmix prefix (iff the flag is   *)
(* set), then loudnorm=linear=true:I=:LRA=:TP=:measured_I=:measured_TP=:   *)
(* measured_LRA=:measured_thresh=:offset= in that order with the values    *)
(* echoed as given, then the resample suffix (iff the flag is set); it     *)
(* never contains print_format=json; the specification's example holds.    *)
(***************************************************************************)
C3_CorrectionFormat ==
    correction # "" =>
      LET c == config[1]
          m == loudness[1]
      IN
      /\ correction =
           SpecCorrectionHead(c.down_mix, c.integrated_loudness,
                              c.loudness_range, c.true_peak)
           \o SpecMeasured(m) \o SpecResample(c.resample)
      /\ ~Contains(correction, "print_format=json")
      /\ Contains(correction, "linear=true")
      /\ c.resample <=>
           Contains(correction, "aresample=")
      /\ ( /\ TargetsOf(cmd) = <<"-23.0", "7.0", "-2.0">>
           /\ ~cmd.down_mix /\ ~cmd.resample
           /\ m = SpecExampleMeasurement ) => correction = SpecExample

C3_Witness ==
    /\ Ended /\ stdout = SpecExample \o "\n"

(***************************************************************************)
(* C4 as stated: the measurement-mode string is the downmix prefix (iff    *)
(* the flag is set) followed by loudnorm=I=<I>:LRA=<LRA>:TP=<TP>:          *)
(* print_format=json.                                                      *)
(***************************************************************************)
C4_MeasurementFormatUpperTP ==
    child.state = "running" =>
      filter_settings =
        SpecMeasurement(config[1].down_mix, config[1].integrated_loudness,
                        config[1].loudness_range, config[1].true_peak, "TP")

(***************************************************************************)
(* C4 amended: the measurement-mode string is the downmix prefix (iff the  *)
(* flag is set, else it begins with loudnorm=) followed by                 *)
(* loudnorm=I=<I>:LRA=<LRA>:tp=<TP>:print_format=json, the true-peak key   *)
(* in lower case; it contains print_format=json, omits linear=true and     *)
(* never holds the resample suffix, whatever the resample flag.            *)
(***************************************************************************)
C4_MeasurementFormat ==
    child.state = "running" =>
      LET c == config[1] IN
      /\ child.args = <<"-i", c.input_path, "-hide_banner", "-vn", "-af",
                        filter_settings, "-f", "null", "-">>
      /\ filter_settings =
           SpecMeasurement(c.down_mix, c.integrated_loudness, c.loudness_range,
                           c.true_peak, "tp")
      /\ c.down_mix <=> StartsWith(filter_settings, "aformat=")
      /\ ~c.down_mix <=> StartsWith(filter_settings, "loudnorm=")
      /\ EndsWith(filter_settings, ":print_format=json")
      /\ ~Contains(filter_settings, "linear=true")
      /\ ~Contains(filter_settings, "aresample")

C4_Witness ==
    /\ child.state = "running" /\ config[1].down_mix /\ config[1].resample
    /\ child.args[6] = filter_settings

(***************************************************************************)
(* C5: whenever the diagnostic text holds a flat five-field object as its  *)
(* last brace-delimited object, extraction yields a record with exactly    *)
(* its five values, whatever log text precedes it and whatever log text    *)
(* without an opening brace follows its closing brace.                     *)
(***************************************************************************)
C5_LastObjectExtracted ==
    (Extracted /\ report.shape.kind = "full" /\ ~Contains(report.trailer, "{")) =>
      (parsed[1].ok /\ parsed[1].val = <<report.m>>)

C7_ExactlyFiveFields ==
    (Extracted /\ report.shape.kind \in {"missing", "mistyped", "ffmpeg"}) =>
      (~parsed[1].ok /\ loudness = <<>>)

(***************************************************************************)
(* C7 amended: a measurement record is accepted only when the sliced       *)
(* object has the five required string-typed fields; an object with one of *)
(* them missing or not a string is rejected (the parse fails and main      *)
(* panics), while fields beyond the five are ignored and the object is     *)
(* accepted with the values of the five.                                   *)
(***************************************************************************)
C7_RequiredStringFields ==
    Extracted =>
      /\ report.shape.kind \in {"missing", "mistyped"} =>
           (~parsed[1].ok /\ loudness = <<>> /\ exit_status = <<ExitPanic>>)
      /\ parsed[1].ok =>
           /\ report.shape.kind \in {"full", "ffmpeg"}
           /\ loudness = <<report.m>>
      /\ (report.shape.kind = "ffmpeg" /\ SkipWs(report.trailer, 1) > Len(report.trailer))
           => parsed[1].ok

C7_Witness ==
    /\ Ended /\ Extracted /\ report.shape.kind = "mistyped"
    /\ report.trailer = "" /\ exit_status = <<ExitPanic>>

(***************************************************************************)
(* C8: when one of the three targets is not parseable as a floating-point  *)
(* number, resolution fails: no configuration is produced, no filter       *)
(* string is built and the external tool is never invoked.                 *)
(***************************************************************************)
C8_TargetsValidated ==
    (\E n \in 1..3 : ~IsFloatText(TargetsOf(cmd)[n])) =>
      /\ config = <<>>
      /\ filter_settings = ""
      /\ child.state = "none"

(***************************************************************************)
(* C9: the steps occur in the order resolve, build measurement filter,     *)
(* invoke, extract, build correction filter, print; the tool is invoked at *)
(* most once; extraction happens only after an invocation that exited with *)
(* status zero; the measurement record is created at most once and, once   *)
(* created, consumed exactly once by the correction-mode build.            *)
(***************************************************************************)
C9_StepOrder ==
    /\ Len(steps) <= Len(StepOrder)
    /\ steps = SubSeq(StepOrder, 1, Len(steps))
    /\ Count(steps, "invoke") <= 1
    /\ Count(steps, "extract") >= 1 =>
         (child.state = "exited" /\ child.status = 0)
    /\ loudness # <<>> => Count(steps, "extract") = 1
    /\ (Ended /\ loudness # <<>>) => Count(steps, "build_correction") = 1
    /\ (Ended /\ AnalysisFailed) => steps = SubSeq(StepOrder, 1, 3)

C9_Witness ==
    /\ Ended /\ steps = StepOrder /\ exit_status = <<ExitSuccess>>

(***************************************************************************)
(* C10: the I, LRA and TP targets and the downmix choice in the printed    *)
(* correction string are the ones that were in the measurement-mode string *)
(* passed to the external tool, and the five measured values printed are   *)
(* exactly the text the tool reported.                                     *)
(***************************************************************************)
C10_SameConfigurationBothPasses ==
    Printed =>
      \E d \in BOOLEAN, i \in {"-24.0", "-23.0", "abc"}, l \in {"7.0", "11.0"},
         t \in {"-2.0", "-1.5"} :
        /\ child.args[6] = SpecMeasurement(d, i, l, t, "tp")
        /\ StartsWith(stdout, SpecCorrectionHead(d, i, l, t)
                              \o SpecMeasured(report.m))

C10_Witness ==
    /\ Printed /\ cmd.integrated_loudness = <<"abc">> /\ cmd.down_mix
    /\ cmd.true_peak = <<"-1.5">> /\ report.shape.kind = "ffmpeg"

=============================================================================
